---- MODULE Spec2Model ----
(***************************************************************************)
(* Model of src/src/main.rs: the sweep-line computation of the maximum     *)
(* number of simultaneously open meetings during each meeting's span.      *)
(*                                                                         *)
(* A meeting is the Rust tuple (f32, f32), modelled as <<start, end>>; an  *)
(* endpoint is the tuple (f32, Cap), modelled as <<position, cap>>.  The   *)
(* code only ever compares the f32 coordinates (<, ==, partial_cmp), so    *)
(* they are modelled by integers of 1..MaxTime with the same order.  NaN   *)
(* coordinates are outside the model.                                      *)
(*                                                                         *)
(* Vec indices are 0-based as in the source; At(v, i) is v[i].             *)
(***************************************************************************)
EXTENDS Integers, Sequences, FiniteSets

\* Bounds of the model: longest batch, and number of distinct coordinates.
MaxLen == 3
MaxTime == 4

VARIABLES meetings, pc, breakpoints, stack_count, result, start_index, end_index

vars == <<meetings, pc, breakpoints, stack_count, result, start_index, end_index>>

Times == 1..MaxTime

\* Every (f32, f32) pair over the coordinates, well-formed or not.
Meetings == Times \X Times

\* Every batch of at most MaxLen meetings.
Batches == UNION {[1..n -> Meetings] : n \in 0..MaxLen}

\* v[i] of a Vec or slice, 0-based.
At(v, i) == v[i + 1]

----------------------------------------------------------------------------
\* Faulty variant: the variants declared in the other order, Start < End.
CapRankSwapped(c) == IF c = "Start" THEN 0 ELSE 1

\* enum Cap { End, Start } with #[derive(PartialOrd)]: the derived order is
\* the declaration order, End < Start.

CapRank(c) == IF c = "End" THEN 0 ELSE 1

\* partial_cmp on two comparable values.
partial_cmp(x, y) == IF x < y THEN "Less" ELSE IF x = y THEN "Equal" ELSE "Greater"

\* Faulty variant: the positions compared the wrong way round (b with a).
CompareDescending(a, b) ==
    LET o == partial_cmp(b[1], a[1])
    IN  IF o = "Equal" THEN partial_cmp(CapRank(a[2]), CapRank(b[2])) ELSE o

\* The closure given to sort_by: by position, then by Cap.
Compare(a, b) ==
    LET o == partial_cmp(a[1], b[1])
    IN  IF o = "Equal" THEN partial_cmp(CapRank(a[2]), CapRank(b[2])) ELSE o

\* The push loop of create_breakpoints: (start, Start) then (end, End) for
\* each meeting, in input order.
RECURSIVE push_endpoints(_)
push_endpoints(ms) ==
    IF ms = <<>> THEN <<>>
    ELSE <<<<Head(ms)[1], "Start">>, <<Head(ms)[2], "End">>>> \o push_endpoints(Tail(ms))

\* slice::sort_by is a stable sort: an element is placed after every element
\* that does not compare Greater than it.
RECURSIVE insert_stable(_, _)
insert_stable(e, s) ==
    IF s = <<>> THEN <<e>>
    ELSE IF Compare(e, Head(s)) = "Less" THEN <<e>> \o s
    ELSE <<Head(s)>> \o insert_stable(e, Tail(s))

RECURSIVE sort_from(_, _)
sort_from(sorted, rest) ==
    IF rest = <<>> THEN sorted
    ELSE sort_from(insert_stable(Head(rest), sorted), Tail(rest))

\* Faulty variant: the endpoints left in the order they were pushed.
SortByNothing(endpoints) == endpoints

\* endpoints.sort_by(..), as a stable insertion sort.

sort_by(endpoints) == sort_from(<<>>, endpoints)

create_breakpoints(ms) == sort_by(push_endpoints(ms))

----------------------------------------------------------------------------
\* create_stack_count: curr starts at 0, +1 on Start, -1 on End, pushed after
\* each update.  curr is kept as a mathematical integer: a negative value is
\* the underflow of the usize counter.
RECURSIVE stack_count_from(_, _)
stack_count_from(curr, bps) ==
    IF bps = <<>> THEN <<>>
    ELSE IF Head(bps)[2] = "Start"
         THEN <<curr + 1>> \o stack_count_from(curr + 1, Tail(bps))
         ELSE <<curr - 1>> \o stack_count_from(curr - 1, Tail(bps))

create_stack_count(bps) == stack_count_from(0, bps)

----------------------------------------------------------------------------
\* Faulty variant: an End at the meeting's start is not skipped.
StartLoopCondNoCap(bp, meeting_start) == bp[1] < meeting_start

\* The condition of the first while loop of slice_index, on the endpoint read.

StartLoopCond(bp, meeting_start) ==
    bp[1] < meeting_start \/ (bp[1] = meeting_start /\ bp[2] = "End")

\* The first while loop of slice_index.  The read breakpoints[start_index] is
\* bounds-checked and not guarded by the loop: the loop ends at the first
\* index whose endpoint fails the condition, or at the index whose read is
\* out of bounds (i = Len(bps)), which panics.
RECURSIVE start_loop(_, _, _)
start_loop(meeting_start, bps, i) ==
    IF i >= Len(bps) THEN i
    ELSE IF StartLoopCond(At(bps, i), meeting_start)
         THEN start_loop(meeting_start, bps, i + 1)
         ELSE i

\* Faulty variant: <= in place of <.
EndLoopCondInclusive(bp, meeting_end) == bp[1] <= meeting_end

\* The comparison of the second while loop of slice_index.

EndLoopCond(bp, meeting_end) == bp[1] < meeting_end

\* The second while loop of slice_index: guarded by end_index < 2 * n, and
\* the read is bounds-checked (it ends at an out-of-bounds index below 2 * n
\* only if the slice is shorter than 2 * n).
RECURSIVE end_loop(_, _, _, _)
end_loop(meeting_end, bps, num_meetings, e) ==
    IF e < 2 * num_meetings /\ e < Len(bps) /\ EndLoopCond(At(bps, e), meeting_end)
    THEN end_loop(meeting_end, bps, num_meetings, e + 1)
    ELSE e

\* Faulty variant: the + 1 left out.
EndBoundSameIndex(e) == e

\* The value slice_index returns from the index its second loop ended at.

EndBound(e) == e + 1

\* slice_index: (start_index, end_index), or a panic on an out-of-bounds read.
slice_index(meeting, bps, num_meetings) ==
    LET s == start_loop(meeting[1], bps, 0)
        e == end_loop(meeting[2], bps, num_meetings, s)
    IN  IF s >= Len(bps) \/ (e < 2 * num_meetings /\ e >= Len(bps))
        THEN [panicked |-> TRUE, start_index |-> s, end_index |-> s]
        ELSE [panicked |-> FALSE, start_index |-> s, end_index |-> EndBound(e)]

----------------------------------------------------------------------------
\* Faulty variant: the smaller of the two.
MinOf(a, b) == IF a <= b THEN a ELSE b

\* std::cmp::max

max(a, b) == IF a >= b THEN a ELSE b

\* for index in start_index..end_index { max_overlap = max(stack_count[index],
\* max_overlap) }: stops early at an out-of-bounds read, which panics.
RECURSIVE max_loop(_, _, _, _)
max_loop(sc, index, end, max_overlap) ==
    IF index >= end \/ index >= Len(sc) THEN max_overlap
    ELSE max_loop(sc, index + 1, end, max(At(sc, index), max_overlap))

\* Lines 81-84 of solve_max_overlap: the seed stack_count[start_index] and the
\* max-reduction over start_index..end_index.
max_overlap_of(sc, s, e) ==
    IF s >= Len(sc) \/ (s < e /\ e > Len(sc))
    THEN [panicked |-> TRUE, value |-> 0]
    ELSE [panicked |-> FALSE, value |-> max_loop(sc, s, e, At(sc, s))]

\* Faulty variant: zero-length meetings let through.
IsValidAllowEmpty(ms) == \A k \in DOMAIN ms : ms[k][1] <= ms[k][2]

\* is_valid: TRUE when no assert!(meeting.0 < meeting.1) fails.

is_valid(ms) == \A k \in DOMAIN ms : ms[k][1] < ms[k][2]

\* solve_max_overlap as a function of the batch.
solve_max_overlap(ms) ==
    IF ~is_valid(ms) THEN [panicked |-> TRUE, result |-> <<>>]
    ELSE LET bps == create_breakpoints(ms)
             sc == create_stack_count(bps)
             one(k) == LET si == slice_index(ms[k], bps, Len(ms))
                       IN  IF si.panicked THEN [panicked |-> TRUE, value |-> 0]
                           ELSE max_overlap_of(sc, si.start_index, si.end_index)
             each == [k \in 1..Len(ms) |-> one(k)]
         IN  IF \E k \in DOMAIN ms : each[k].panicked
             THEN [panicked |-> TRUE, result |-> <<>>]
             ELSE [panicked |-> FALSE, result |-> [k \in 1..Len(ms) |-> each[k].value]]

----------------------------------------------------------------------------
\* One call of solve_max_overlap on a batch, statement by statement.
Init ==
    /\ meetings \in Batches
    /\ pc = "is_valid"
    /\ breakpoints = <<>>
    /\ stack_count = <<>>
    /\ result = <<>>
    /\ start_index = 0
    /\ end_index = 0

\* Line 75: is_valid(meetings); a failed assert panics.
IsValid ==
    /\ pc = "is_valid"
    /\ pc' = IF is_valid(meetings) THEN "create_breakpoints" ELSE "panicked"
    /\ UNCHANGED <<meetings, breakpoints, stack_count, result, start_index, end_index>>

\* Line 76.
CreateBreakpoints ==
    /\ pc = "create_breakpoints"
    /\ breakpoints' = create_breakpoints(meetings)
    /\ pc' = "create_stack_count"
    /\ UNCHANGED <<meetings, stack_count, result, start_index, end_index>>

\* Lines 77-78.
CreateStackCount ==
    /\ pc = "create_stack_count"
    /\ stack_count' = create_stack_count(breakpoints)
    /\ pc' = "for_meeting"
    /\ UNCHANGED <<meetings, breakpoints, result, start_index, end_index>>

\* Lines 79-80: the next meeting of the for loop and its slice_index call.
\* The meeting in hand is the one whose result is pushed next.
SliceIndex ==
    /\ pc = "for_meeting"
    /\ Len(result) < Len(meetings)
    /\ LET si == slice_index(meetings[Len(result) + 1], breakpoints, Len(meetings))
       IN  /\ start_index' = si.start_index
           /\ end_index' = si.end_index
           /\ pc' = IF si.panicked THEN "panicked" ELSE "max_overlap"
    /\ UNCHANGED <<meetings, breakpoints, stack_count, result>>

\* Lines 81-85: the max-reduction and result.push(max_overlap).
MaxOverlap ==
    /\ pc = "max_overlap"
    /\ LET m == max_overlap_of(stack_count, start_index, end_index)
       IN  IF m.panicked
           THEN pc' = "panicked" /\ UNCHANGED result
           ELSE pc' = "for_meeting" /\ result' = Append(result, m.value)
    /\ UNCHANGED <<meetings, breakpoints, stack_count, start_index, end_index>>

\* Line 87: the for loop is exhausted and result is returned.
Return ==
    /\ pc = "for_meeting"
    /\ Len(result) = Len(meetings)
    /\ pc' = "done"
    /\ UNCHANGED <<meetings, breakpoints, stack_count, result, start_index, end_index>>

Next ==
    \/ IsValid
    \/ CreateBreakpoints
    \/ CreateStackCount
    \/ SliceIndex
    \/ MaxOverlap
    \/ Return

Spec == Init /\ [][Next]_vars

----------------------------------------------------------------------------
\* Vocabulary of the properties, stated on the batch itself.

NumMeetings == Len(meetings)

WellFormed(m) == m[1] < m[2]

AllWellFormed == \A k \in DOMAIN meetings : WellFormed(meetings[k])

\* The meeting the for loop has in hand while pc = "max_overlap".
Current == meetings[Len(result) + 1]

Pos(i) == At(breakpoints, i)[1]

Kind(i) == At(breakpoints, i)[2]

Indices == 0..(Len(breakpoints) - 1)

\* Instants in half units, so that the instants strictly between two
\* neighbouring coordinates are there as well as the coordinates.
Instants == 2..(2 * MaxTime + 1)

OpenAt(m, t) == 2 * m[1] <= t /\ t < 2 * m[2]

Occupancy(t) == Cardinality({j \in DOMAIN meetings : OpenAt(meetings[j], t)})

\* The largest element of a non-empty set of numbers.
Largest(S) == CHOOSE v \in S : \A w \in S : w <= v

\* The largest occupancy at an instant at which m is open.
PeakDuring(m) == Largest({Occupancy(t) : t \in {u \in Instants : OpenAt(m, u)}})

\* The largest value of stack_count at the indices satisfying In.
MaxCountWhere(In(_)) == Largest({At(stack_count, k) : k \in {h \in Indices : In(h)}})

\* The permutations of 1..n, for every batch length n.
Perms == [n \in 0..MaxLen |->
             {p \in [1..n -> 1..n] : \A a, b \in 1..n : p[a] = p[b] => a = b}]

Permute(ms, p) == [k \in 1..Len(ms) |-> ms[p[k]]]

Count(seq, e) == Cardinality({k \in DOMAIN seq : seq[k] = e})

----------------------------------------------------------------------------
\* C1: for a batch of well-formed meetings, result[i] is the largest number of
\* meetings of the batch open at one instant t with start_i <= t < end_i,
\* where meeting j is open at t when start_j <= t < end_j; every meeting of
\* the batch gets its result.
C1_ResultIsPeakOccupancy ==
    AllWellFormed =>
        /\ pc # "panicked"
        /\ \A i \in DOMAIN result : result[i] = PeakDuring(meetings[i])
        /\ pc = "done" => Len(result) = NumMeetings

\* A finished batch in which a meeting with two open at once starts where a
\* meeting that is alone ends.
C1_Witness ==
    /\ pc = "done"
    /\ \E i, j \in DOMAIN meetings :
          /\ meetings[j][2] = meetings[i][1]
          /\ result[j] = 1
          /\ result[i] = 2

\* C2: a batch with an ill-formed meeting (start >= end) anywhere in it
\* panics in is_valid: no breakpoints, stack count or result is ever built.
C2_InvalidBatchPanicsFirst ==
    ~AllWellFormed =>
        /\ pc \in {"is_valid", "panicked"}
        /\ pc = "is_valid" => ENABLED IsValid
        /\ breakpoints = <<>>
        /\ stack_count = <<>>
        /\ result = <<>>

\* A panic on a batch whose only ill-formed meeting is a zero-length one in
\* last position, after two well-formed ones.
C2_Witness ==
    /\ pc = "panicked"
    /\ NumMeetings = 3
    /\ WellFormed(meetings[1])
    /\ WellFormed(meetings[2])
    /\ meetings[3][1] = meetings[3][2]

\* Every two meetings of the batch are disjoint or only touch.
PairwiseDisjoint ==
    \A a, b \in DOMAIN meetings :
        a # b => meetings[a][2] <= meetings[b][1] \/ meetings[b][2] <= meetings[a][1]

\* C3: when every two meetings of a well-formed batch are disjoint or only
\* touch (end_a <= start_b or end_b <= start_a), in any input order, every
\* result is 1.
C3_TouchingIsNotOverlap ==
    (AllWellFormed /\ PairwiseDisjoint) =>
        /\ pc # "panicked"
        /\ \A i \in DOMAIN result : result[i] = 1
        /\ pc = "done" => Len(result) = NumMeetings

\* A finished batch of three pairwise disjoint meetings where a later meeting
\* of the input ends exactly where an earlier one starts.
C3_Witness ==
    /\ pc = "done"
    /\ NumMeetings = 3
    /\ AllWellFormed
    /\ PairwiseDisjoint
    /\ \E i, j \in DOMAIN meetings : i < j /\ meetings[j][2] = meetings[i][1]

\* C4: the result of a permuted batch is the result permuted the same way:
\* solve_max_overlap(meetings o p)[k] = result[p(k)] for every permutation p.
C4_PermutationEquivariant ==
    pc = "done" =>
        \A p \in Perms[NumMeetings] :
            LET other == solve_max_overlap(Permute(meetings, p))
            IN  /\ ~other.panicked
                /\ other.result = [k \in 1..NumMeetings |-> result[p[k]]]

\* A finished batch with a duplicated meeting and two different result values.
C4_Witness ==
    /\ pc = "done"
    /\ \E i, j, k \in DOMAIN meetings :
          /\ i # j
          /\ meetings[i] = meetings[j]
          /\ result[k] # result[i]

\* C5: for a well-formed batch every result is >= 1, and so is already the
\* seed stack_count[start_index] of the max-reduction.
C5_AtLeastOne ==
    AllWellFormed =>
        /\ \A i \in DOMAIN result : result[i] >= 1
        /\ pc = "max_overlap" => At(stack_count, start_index) >= 1
        /\ (pc = "done" /\ NumMeetings > 0) => result # <<>>

\* The seed is read right after an End endpoint at the meeting's own start
\* that brought the count to 0.
C5_Witness ==
    /\ pc = "max_overlap"
    /\ start_index > 0
    /\ Pos(start_index - 1) = Current[1]
    /\ Kind(start_index - 1) = "End"
    /\ At(stack_count, start_index - 1) = 0

\* C6: create_breakpoints returns 2n endpoints, a permutation of the starts
\* tagged Start and the ends tagged End, ascending by position with every End
\* before every Start at one position, whatever the order of the input.
C6_BreakpointsSorted ==
    pc = "create_stack_count" =>
        /\ Len(breakpoints) = 2 * NumMeetings
        /\ \A t \in Times :
              /\ Count(breakpoints, <<t, "Start">>)
                    = Cardinality({k \in DOMAIN meetings : meetings[k][1] = t})
              /\ Count(breakpoints, <<t, "End">>)
                    = Cardinality({k \in DOMAIN meetings : meetings[k][2] = t})
        /\ \A i, j \in Indices :
              i < j => \/ Pos(i) < Pos(j)
                       \/ Pos(i) = Pos(j) /\ ~(Kind(i) = "Start" /\ Kind(j) = "End")
        /\ \A p \in Perms[NumMeetings] :
              create_breakpoints(Permute(meetings, p)) = breakpoints

\* Breakpoints of three meetings given out of order, with an End and a Start
\* at one position.
C6_Witness ==
    /\ pc = "create_stack_count"
    /\ NumMeetings = 3
    /\ meetings[1][1] > meetings[2][1]
    /\ \E i \in Indices : i > 0 /\ Pos(i - 1) = Pos(i) /\ Kind(i - 1) = "End" /\ Kind(i) = "Start"

\* C7: the counter recorded by create_stack_count over the breakpoints of a
\* well-formed batch is never negative.
C7_CounterNeverNegative ==
    AllWellFormed => \A k \in DOMAIN stack_count : stack_count[k] >= 0

\* The counter reaches 0 on an End and the next endpoint is a Start at the
\* same position.
C7_Witness ==
    /\ pc = "for_meeting"
    /\ \E i \in Indices :
          /\ i > 0
          /\ At(stack_count, i - 1) = 0
          /\ Pos(i - 1) = Pos(i)
          /\ Kind(i) = "Start"

\* The endpoint at index i is after the start of the meeting in hand, or is a
\* Start at it.
StartStops(i) == Pos(i) > Current[1] \/ (Pos(i) = Current[1] /\ Kind(i) = "Start")

\* C8: slice_index returns start_index, the first index whose endpoint is
\* after the meeting's start or is a Start at it, and end_index = j + 1 for
\* the first j >= start_index whose endpoint is at or after the meeting's
\* end; end_index <= 2n.
C8_SliceIndexBounds ==
    pc = "max_overlap" =>
        /\ start_index \in Indices
        /\ StartStops(start_index)
        /\ \A i \in 0..(start_index - 1) : ~StartStops(i)
        /\ \E j \in Indices :
              /\ j >= start_index
              /\ Pos(j) >= Current[2]
              /\ \A h \in start_index..(j - 1) : Pos(h) < Current[2]
              /\ end_index = j + 1
        /\ end_index <= 2 * NumMeetings

\* A range that starts after the first endpoint, ends before the last, and
\* holds at least three endpoints.
C8_Witness ==
    /\ pc = "max_overlap"
    /\ start_index > 0
    /\ end_index < 2 * NumMeetings
    /\ end_index - start_index >= 3

\* The endpoint at index k lies in the closed range of meeting m.
InClosedRange(m, k) == m[1] <= Pos(k) /\ Pos(k) <= m[2]

\* C9 as stated: result[i] is the largest counter recorded at an endpoint
\* whose position is in the closed range [start_i, end_i], every endpoint at
\* start_i and at end_i included.
C9_MaxOverClosedRange ==
    AllWellFormed =>
        \A i \in DOMAIN result :
            LET In(k) == InClosedRange(meetings[i], k)
            IN  result[i] = MaxCountWhere(In)

\* The endpoint at index k lies strictly inside meeting m, or is a Start at
\* its start, or an End at its end.
InSpan(m, k) ==
    \/ m[1] < Pos(k) /\ Pos(k) < m[2]
    \/ Pos(k) = m[1] /\ Kind(k) = "Start"
    \/ Pos(k) = m[2] /\ Kind(k) = "End"

\* C9 amended: result[i] is the largest counter recorded at an endpoint
\* strictly inside (start_i, end_i), at a Start endpoint at start_i, or at an
\* End endpoint at end_i; the End endpoints at start_i and the Start
\* endpoints at end_i are not included.
C9_MaxOverSpan ==
    AllWellFormed =>
        \A i \in DOMAIN result :
            LET In(k) == InSpan(meetings[i], k)
            IN  result[i] = MaxCountWhere(In)

\* A result of 1 for a meeting at whose end two other meetings start.
C9_Witness ==
    /\ pc = "done"
    /\ \E i, j, k \in DOMAIN meetings :
          /\ j # k
          /\ meetings[j][1] = meetings[i][2]
          /\ meetings[k][1] = meetings[i][2]
          /\ result[i] = 1

\* On a well-formed batch nothing panics and the indices are in bounds.
C10_Safe ==
    AllWellFormed =>
        /\ pc # "panicked"
        /\ Len(breakpoints) \in {0, 2 * NumMeetings}
        /\ Len(stack_count) \in {0, 2 * NumMeetings}
        /\ pc = "max_overlap" =>
              /\ 0 <= start_index
              /\ start_index < 2 * NumMeetings
              /\ start_index < end_index
              /\ end_index <= 2 * NumMeetings
        /\ (pc = "done" /\ NumMeetings = 0) => result = <<>>

\* The statements left to run: it decreases with every step of the call.
Remaining ==
    2 * (NumMeetings - Len(result))
        + (CASE pc = "is_valid" -> 5
             [] pc = "create_breakpoints" -> 4
             [] pc = "create_stack_count" -> 3
             [] pc = "for_meeting" -> 2
             [] pc = "max_overlap" -> 1
             [] OTHER -> 0)

\* A statement of the call is left to run: the guards of Next's actions.
CanStep ==
    \/ pc \in {"is_valid", "create_breakpoints", "create_stack_count", "max_overlap"}
    \/ pc = "for_meeting" /\ Len(result) <= NumMeetings

\* C10: on a well-formed batch (the empty one included, whose result is
\* empty) no read of breakpoints or stack_count is out of bounds (no panic),
\* slice_index returns start_index < end_index <= 2n with start_index < 2n,
\* and the call terminates: a statement is left to run until it is done, and
\* every step brings the end nearer.
C10_IndicesInBounds ==
    /\ [](C10_Safe /\ Remaining >= 0 /\ (pc \in {"done", "panicked"} \/ CanStep))
    /\ [][Remaining' < Remaining]_vars

\* The range of a meeting reaches the last endpoint: end_index = 2n.
C10_Witness ==
    /\ pc = "max_overlap"
    /\ NumMeetings = 3
    /\ start_index > 0
    /\ end_index = 2 * NumMeetings

====
